---- MODULE Spec2Model ----
(***************************************************************************)
(* Model of prometheus/testutil/purego/process_collector_cgo_darwin.c:     *)
(* eleven zero-argument accessors that report sizeof/offsetof facts of     *)
(* struct mach_task_basic_info and struct vm_region_basic_info_64 and      *)
(* three shared-region constants, each as a size_t.                        *)
(*                                                                         *)
(* Numbers that can exceed TLC's 32-bit integers are kept as little-endian *)
(* sequences of 16-bit limbs, so that the conversion to the 64-bit return  *)
(* type is a real truncation and not the identity.                         *)
(***************************************************************************)
EXTENDS Integers, Sequences, FiniteSets, Bags, TLC

(* ------------------------------ bounds --------------------------------- *)

NumThreads == 2
MaxCalls == 4
NumGarbage == 2

Threads == 1..NumThreads
\* possible contents of an uninitialised automatic struct
Garbage == 1..NumGarbage

(* --------------------------- limb arithmetic --------------------------- *)

Base == 2^16

\* little-endian limbs of the natural number n (n within TLC's integers)
RECURSIVE Limbs(_)
Limbs(n) == IF n < Base THEN <<n>> ELSE <<n % Base>> \o Limbs(n \div Base)

\* limb i of x, zero beyond its length
LimbAt(x, i) == IF i <= Len(x) THEN x[i] ELSE 0

\* TRUE iff the limb sequence is a number below 2^31
Fits31(x) == /\ \A i \in 1..Len(x) : i > 2 => x[i] = 0
             /\ LimbAt(x, 2) < 2^15

AsNat(x) == LimbAt(x, 1) + Base * LimbAt(x, 2)

IsZero(x) == \A i \in 1..Len(x) : x[i] = 0

\* numeric equality of two limb sequences of any lengths
SameNumber(x, y) ==
    \A i \in 1..(IF Len(x) > Len(y) THEN Len(x) ELSE Len(y)) :
        LimbAt(x, i) = LimbAt(y, i)

(* ------------------- the platform the file is built for ---------------- *)

\* width of size_t under the file's build constraint (cgo && darwin: LP64)
SizeTBits == 64
SizeTLimbs == SizeTBits \div 16

\* <mach/shared_memory_server.h>: 0x90000000U, 0x10000000, 0x10000000
GLOBAL_SHARED_TEXT_SEGMENT == <<0, 36864>>
SHARED_TEXT_REGION_SIZE == <<0, 4096>>
SHARED_DATA_REGION_SIZE == <<0, 4096>>

\* #pragma pack(push, 4) around both structures in the mach headers
Pack == 4

\* scalar types of the members: [size, align] in bytes
Ty(s, a) == [size |-> s, align |-> a]
Member(n, ty) == [name |-> n, size |-> ty.size, align |-> ty.align]

\* struct mach_task_basic_info of <mach/task_info.h>
mach_task_basic_info ==
    << Member("virtual_size", Ty(8, 8)),
       Member("resident_size", Ty(8, 8)),
       Member("resident_size_max", Ty(8, 8)),
       Member("user_time", Ty(8, 4)),
       Member("system_time", Ty(8, 4)),
       Member("policy", Ty(4, 4)),
       Member("suspend_count", Ty(4, 4)) >>

\* struct vm_region_basic_info_64 of <mach/vm_region.h>
vm_region_basic_info_64 ==
    << Member("protection", Ty(4, 4)),
       Member("max_protection", Ty(4, 4)),
       Member("inheritance", Ty(4, 4)),
       Member("shared", Ty(4, 4)),
       Member("reserved", Ty(4, 4)),
       Member("offset", Ty(8, 8)),
       Member("behavior", Ty(4, 4)),
       Member("user_wired_count", Ty(2, 2)) >>

(* ------------------- sizeof / offsetof as the compiler ----------------- *)

Min(a, b) == IF a < b THEN a ELSE b
Max(a, b) == IF a > b THEN a ELSE b
AlignUp(n, a) == ((n + a - 1) \div a) * a

\* alignment of a member under the pack pragma
MemberAlign(m) == Min(m.align, Pack)

\* byte offset of the first byte after member i (0 for i = 0)
RECURSIVE MemberEnd(_, _)
MemberEnd(S, i) ==
    IF i = 0 THEN 0
    ELSE AlignUp(MemberEnd(S, i - 1), MemberAlign(S[i])) + S[i].size

MemberIndex(S, n) == CHOOSE i \in 1..Len(S) : S[i].name = n

RECURSIVE StructAlign(_, _)
StructAlign(S, i) ==
    IF i = 0 THEN 1 ELSE Max(MemberAlign(S[i]), StructAlign(S, i - 1))

\* offsetof(struct S, n)
offsetof(S, n) ==
    LET i == MemberIndex(S, n)
    IN  AlignUp(MemberEnd(S, i - 1), MemberAlign(S[i]))

\* sizeof(struct S)
sizeofStruct(S) == AlignUp(MemberEnd(S, Len(S)), StructAlign(S, Len(S)))

\* sizeof(x.n) for x of type struct S
sizeofMember(S, n) == S[MemberIndex(S, n)].size

\* faulty variant: the value passes through int (32 bits, signed) before
\* it is widened to size_t
ToSizeT_viaInt(x) ==
    [i \in 1..SizeTLimbs |->
        IF i <= 2 THEN LimbAt(x, i)
        ELSE IF LimbAt(x, 2) >= 2^15 THEN Base - 1 ELSE 0]

\* conversion of a value to the return type size_t: reduction mod 2^SizeTBits
ToSizeT(x) == [i \in 1..SizeTLimbs |-> LimbAt(x, i)]

(* ------------------------------ accessors ------------------------------ *)

\* info / data: the contents of the accessor's automatic struct, where it
\* declares one (never initialised)

getGlobalSharedTextSegment == ToSizeT(GLOBAL_SHARED_TEXT_SEGMENT)

\* faulty variant: the wrong macro is returned
getSharedTextRegionSize_segment == ToSizeT(GLOBAL_SHARED_TEXT_SEGMENT)

getSharedTextRegionSize == ToSizeT(SHARED_TEXT_REGION_SIZE)

getSharedDataRegionSize == ToSizeT(SHARED_DATA_REGION_SIZE)

\* faulty variant: sizeof of a member instead of the structure
getSizeofMachTaskBasicInfo_member ==
    ToSizeT(Limbs(sizeofMember(mach_task_basic_info, "virtual_size")))

getSizeofMachTaskBasicInfo == ToSizeT(Limbs(sizeofStruct(mach_task_basic_info)))

getOffsetOfMachTaskBasicInfo_virtual_size ==
    ToSizeT(Limbs(offsetof(mach_task_basic_info, "virtual_size")))

\* faulty variant: the uninitialised member is read instead of measured
getSizeofMachTaskBasicInfo_virtual_size_read(info) == ToSizeT(Limbs(info))

getSizeofMachTaskBasicInfo_virtual_size(info) ==
    ToSizeT(Limbs(sizeofMember(mach_task_basic_info, "virtual_size")))

\* faulty variant: offsetof names the other member
getOffsetOfMachTaskBasicInfo_resident_size_other ==
    ToSizeT(Limbs(offsetof(mach_task_basic_info, "virtual_size")))

getOffsetOfMachTaskBasicInfo_resident_size ==
    ToSizeT(Limbs(offsetof(mach_task_basic_info, "resident_size")))

\* faulty variant: the uninitialised member is read instead of measured
getSizeofMachTaskBasicInfo_resident_size_read(info) == ToSizeT(Limbs(info))

getSizeofMachTaskBasicInfo_resident_size(info) ==
    ToSizeT(Limbs(sizeofMember(mach_task_basic_info, "resident_size")))

getSizeofVmRegionBasicInfo64 ==
    ToSizeT(Limbs(sizeofStruct(vm_region_basic_info_64)))

\* faulty variant: offsetof names the neighbouring member
getOffsetOfVmRegionBasicInfo64_reserved_other ==
    ToSizeT(Limbs(offsetof(vm_region_basic_info_64, "shared")))

getOffsetOfVmRegionBasicInfo64_reserved ==
    ToSizeT(Limbs(offsetof(vm_region_basic_info_64, "reserved")))

\* faulty variant: sizeof of the whole struct instead of the member
getSizeofVmRegionBasicInfo64_reserved_whole(data) ==
    ToSizeT(Limbs(sizeofStruct(vm_region_basic_info_64)))

getSizeofVmRegionBasicInfo64_reserved(data) ==
    ToSizeT(Limbs(sizeofMember(vm_region_basic_info_64, "reserved")))

Accessors ==
    { "getGlobalSharedTextSegment", "getSharedTextRegionSize",
      "getSharedDataRegionSize", "getSizeofMachTaskBasicInfo",
      "getOffsetOfMachTaskBasicInfo_virtual_size",
      "getSizeofMachTaskBasicInfo_virtual_size",
      "getOffsetOfMachTaskBasicInfo_resident_size",
      "getSizeofMachTaskBasicInfo_resident_size",
      "getSizeofVmRegionBasicInfo64",
      "getOffsetOfVmRegionBasicInfo64_reserved",
      "getSizeofVmRegionBasicInfo64_reserved" }

\* the accessors whose body declares an automatic struct
DeclaresLocal ==
    { "getSizeofMachTaskBasicInfo_virtual_size",
      "getSizeofMachTaskBasicInfo_resident_size",
      "getSizeofVmRegionBasicInfo64_reserved" }

\* the value the body of f returns, its automatic struct holding `local`
ReturnValue(f, local) ==
    CASE f = "getGlobalSharedTextSegment" -> getGlobalSharedTextSegment
      [] f = "getSharedTextRegionSize" -> getSharedTextRegionSize
      [] f = "getSharedDataRegionSize" -> getSharedDataRegionSize
      [] f = "getSizeofMachTaskBasicInfo" -> getSizeofMachTaskBasicInfo
      [] f = "getOffsetOfMachTaskBasicInfo_virtual_size" ->
            getOffsetOfMachTaskBasicInfo_virtual_size
      [] f = "getSizeofMachTaskBasicInfo_virtual_size" ->
            getSizeofMachTaskBasicInfo_virtual_size(local)
      [] f = "getOffsetOfMachTaskBasicInfo_resident_size" ->
            getOffsetOfMachTaskBasicInfo_resident_size
      [] f = "getSizeofMachTaskBasicInfo_resident_size" ->
            getSizeofMachTaskBasicInfo_resident_size(local)
      [] f = "getSizeofVmRegionBasicInfo64" -> getSizeofVmRegionBasicInfo64
      [] f = "getOffsetOfVmRegionBasicInfo64_reserved" ->
            getOffsetOfVmRegionBasicInfo64_reserved
      [] f = "getSizeofVmRegionBasicInfo64_reserved" ->
            getSizeofVmRegionBasicInfo64_reserved(local)

\* faulty variant: every accessor memoises its result in a static object
StaticWrites_memo(f) == {"memo"}

\* objects of static storage duration the body of f assigns / reads:
\* the file defines none and no body names one
StaticWrites(f) == {}

StaticReads(f) == {}

(* ----------------------------- the process ----------------------------- *)

\* Threads carry no identity the accessors can observe (no argument, no
\* thread-local object), so the calls in progress are kept as a bag of
\* frames, at most NumThreads of them.

VARIABLES
    active,       \* bag of the frames of the calls in progress
    last,         \* the most recent return
    first,        \* first[f]: the first return of f in this process
    staticStore,  \* static objects assigned since the process started
    ncalls        \* calls made so far

vars == <<active, last, first, staticStore, ncalls>>

NoLocal == 0
NoReturn == [fn |-> "", val |-> ToSizeT(<<0>>), local |-> NoLocal,
             overlap |-> FALSE]

Frames == BagToSet(active)

Init ==
    /\ active = EmptyBag
    /\ last = NoReturn
    /\ first = << >>
    /\ staticStore = {}
    /\ ncalls = 0

\* an idle thread enters accessor f; a declared automatic struct holds
\* whatever the stack held
Call(f) ==
    /\ BagCardinality(active) < NumThreads
    /\ ncalls < MaxCalls
    /\ \E g \in (IF f \in DeclaresLocal THEN Garbage ELSE {NoLocal}) :
          active' = active (+) SetToBag({[fn |-> f, local |-> g]})
    /\ ncalls' = ncalls + 1
    /\ UNCHANGED <<last, first, staticStore>>

\* faulty variant: the accessors serialise on a process-wide lock, so a
\* return waits while any other call is in progress
Return_locked(fr) ==
    /\ BagIn(fr, active)
    /\ BagCardinality(active) = 1
    /\ last' = [fn |-> fr.fn, val |-> ReturnValue(fr.fn, fr.local),
                local |-> fr.local, overlap |-> FALSE]
    /\ first' = IF fr.fn \in DOMAIN first THEN first
                ELSE first @@ (fr.fn :> [val |-> ReturnValue(fr.fn, fr.local),
                                         local |-> fr.local])
    /\ active' = active (-) SetToBag({fr})
    /\ UNCHANGED <<staticStore, ncalls>>

\* a thread executes the return statement of the accessor it is in
Return(fr) ==
    /\ BagIn(fr, active)
    /\ LET v == ReturnValue(fr.fn, fr.local)
       IN  /\ last' = [fn |-> fr.fn, val |-> v, local |-> fr.local,
                       overlap |-> BagCardinality(active) > 1]
           /\ first' = IF fr.fn \in DOMAIN first THEN first
                       ELSE first @@ (fr.fn :> [val |-> v, local |-> fr.local])
           /\ staticStore' = staticStore \cup StaticWrites(fr.fn)
    /\ active' = active (-) SetToBag({fr})
    /\ UNCHANGED ncalls

Next ==
    \/ \E f \in Accessors : Call(f)
    \/ \E fr \in Frames : Return(fr)

Spec == Init /\ [][Next]_vars

(* ------------------------- facts of the spec --------------------------- *)

\* the fact the accessor table assigns to each accessor, as a number
TableFacts ==
  [f \in Accessors |->
    CASE f = "getGlobalSharedTextSegment" -> GLOBAL_SHARED_TEXT_SEGMENT
      [] f = "getSharedTextRegionSize" -> SHARED_TEXT_REGION_SIZE
      [] f = "getSharedDataRegionSize" -> SHARED_DATA_REGION_SIZE
      [] f = "getSizeofMachTaskBasicInfo" ->
            Limbs(sizeofStruct(mach_task_basic_info))
      [] f = "getOffsetOfMachTaskBasicInfo_virtual_size" ->
            Limbs(offsetof(mach_task_basic_info, "virtual_size"))
      [] f = "getSizeofMachTaskBasicInfo_virtual_size" ->
            Limbs(sizeofMember(mach_task_basic_info, "virtual_size"))
      [] f = "getOffsetOfMachTaskBasicInfo_resident_size" ->
            Limbs(offsetof(mach_task_basic_info, "resident_size"))
      [] f = "getSizeofMachTaskBasicInfo_resident_size" ->
            Limbs(sizeofMember(mach_task_basic_info, "resident_size"))
      [] f = "getSizeofVmRegionBasicInfo64" ->
            Limbs(sizeofStruct(vm_region_basic_info_64))
      [] f = "getOffsetOfVmRegionBasicInfo64_reserved" ->
            Limbs(offsetof(vm_region_basic_info_64, "reserved"))
      [] f = "getSizeofVmRegionBasicInfo64_reserved" ->
            Limbs(sizeofMember(vm_region_basic_info_64, "reserved")) ]

TableFact(f) == TableFacts[f]

\* returns completed so far
Returns == ncalls - BagCardinality(active)

Known(F) == F \subseteq DOMAIN first
Small(F) == \A f \in F : Fits31(first[f].val)
V(f) == AsNat(first[f].val)

\* offset accessor o and field-size accessor z lie within structure-size s
FitsIn(o, z, s) ==
    Known({o, z, s}) => Small({o, z, s}) /\ V(o) + V(z) <= V(s)

(* ------------------------------- claims -------------------------------- *)

\* C1: any two calls of the same accessor in one process return identical
\* values, whatever calls happen before or between them: every return of an
\* accessor equals the first value that accessor returned (what a caching
\* consumer holds).
C1_SameValueEveryCall ==
    last.fn \in DOMAIN first => last.val = first[last.fn].val

\* a second or later return of one accessor, made with a different
\* automatic struct content and after other accessors returned in between
C1_Witness ==
    /\ last.fn = "getSizeofMachTaskBasicInfo_resident_size"
    /\ Known({last.fn, "getSharedDataRegionSize"})
    /\ Returns >= 3
    /\ Cardinality(DOMAIN first) = 2
    /\ first[last.fn].local # last.local

\* C2: each probed field fits within its owning structure:
\* offset + field size <= structure size, for virtual_size and resident_size
\* of mach_task_basic_info and for reserved of vm_region_basic_info_64.
C2_FieldFitsInStruct ==
    /\ FitsIn("getOffsetOfMachTaskBasicInfo_virtual_size",
              "getSizeofMachTaskBasicInfo_virtual_size",
              "getSizeofMachTaskBasicInfo")
    /\ FitsIn("getOffsetOfMachTaskBasicInfo_resident_size",
              "getSizeofMachTaskBasicInfo_resident_size",
              "getSizeofMachTaskBasicInfo")
    /\ FitsIn("getOffsetOfVmRegionBasicInfo64_reserved",
              "getSizeofVmRegionBasicInfo64_reserved",
              "getSizeofVmRegionBasicInfo64")

C2_Witness ==
    /\ Known({"getOffsetOfVmRegionBasicInfo64_reserved",
              "getSizeofVmRegionBasicInfo64_reserved",
              "getSizeofVmRegionBasicInfo64"})
    /\ V("getOffsetOfVmRegionBasicInfo64_reserved") > 0

\* C3: the byte ranges reported for virtual_size and resident_size of
\* mach_task_basic_info do not overlap.
C3_FieldsDisjoint ==
    LET vo == "getOffsetOfMachTaskBasicInfo_virtual_size"
        vz == "getSizeofMachTaskBasicInfo_virtual_size"
        ro == "getOffsetOfMachTaskBasicInfo_resident_size"
        rz == "getSizeofMachTaskBasicInfo_resident_size"
    IN  Known({vo, vz, ro, rz}) =>
            /\ Small({vo, vz, ro, rz})
            /\ \/ V(vo) + V(vz) <= V(ro)
               \/ V(ro) + V(rz) <= V(vo)

C3_Witness ==
    /\ Known({"getOffsetOfMachTaskBasicInfo_virtual_size",
              "getSizeofMachTaskBasicInfo_virtual_size",
              "getOffsetOfMachTaskBasicInfo_resident_size",
              "getSizeofMachTaskBasicInfo_resident_size"})
    /\ V("getSizeofMachTaskBasicInfo_virtual_size") > 0
    /\ V("getSizeofMachTaskBasicInfo_resident_size") > 0

\* two calls in progress, one assigning a static object the other assigns
\* or reads
Race ==
    \E a, b \in Frames :
        /\ a # b \/ CopiesIn(a, active) > 1
        /\ StaticWrites(a.fn) \cap (StaticWrites(b.fn) \cup StaticReads(b.fn)) # {}

\* C4: the accessors may be called concurrently with no coordination: no
\* interleaving has two calls in progress that access the same mutable
\* storage, and a return made while other calls are in progress gives the
\* value the accessor gave before and the value the table assigns to it.
C4_ConcurrentCallsSafe ==
    /\ ~Race
    /\ last.overlap =>
          /\ last.val = first[last.fn].val
          /\ SameNumber(last.val, TableFact(last.fn))

\* a return overlapping another call of the same accessor, after an earlier
\* return of that accessor
C4_Witness ==
    /\ last.overlap
    /\ \E fr \in Frames : fr.fn = last.fn
    /\ Cardinality(DOMAIN first) = 1
    /\ Returns >= 2

\* C5: each accessor returns exactly the fact its name and the accessor
\* table assign to it, and no other accessor's fact.
C5_ReturnsNamedFact ==
    \A f \in DOMAIN first : SameNumber(first[f].val, TableFact(f))

C5_Witness ==
    /\ Known({"getOffsetOfMachTaskBasicInfo_resident_size",
              "getOffsetOfMachTaskBasicInfo_virtual_size",
              "getOffsetOfVmRegionBasicInfo64_reserved"})
    /\ V("getOffsetOfMachTaskBasicInfo_resident_size")
          # V("getOffsetOfMachTaskBasicInfo_virtual_size")

\* C6: every call completes with a value: a call in progress can always
\* execute its return (nothing blocks it, whatever the other threads do),
\* and what it returns is a size_t value, never an error state.
C6_AlwaysReturnsValue ==
    /\ \A fr \in Frames : ENABLED Return(fr)
    /\ last.fn # "" => last.val \in [1..SizeTLimbs -> 0..(Base - 1)]

C6_Witness ==
    /\ BagCardinality(active) = NumThreads
    /\ last.fn # ""

\* C7: every accessor returns an unsigned integer at least 64 bits wide: the
\* value lies in [0, 2^64) and equals the untruncated fact (nothing is cut
\* or wrapped by the return type, the address constant included).
C7_NoTruncation ==
    last.fn # "" =>
        /\ Len(last.val) * 16 >= 64
        /\ \A i \in 1..Len(last.val) : last.val[i] \in 0..(Base - 1)
        /\ \A i \in 1..Len(TableFact(last.fn)) :
              LimbAt(last.val, i) = TableFact(last.fn)[i]
        /\ \A i \in 1..Len(last.val) :
              i > Len(TableFact(last.fn)) => last.val[i] = 0

\* the address constant, whose bit 31 is set, has been returned
C7_Witness ==
    /\ last.fn = "getGlobalSharedTextSegment"
    /\ last.val[2] >= 2^15

\* C8: getSharedTextRegionSize and getSharedDataRegionSize return strictly
\* positive constants, the values the headers define.
C8_SharedRegionSizes ==
    /\ Known({"getSharedTextRegionSize"}) =>
          /\ ~IsZero(first["getSharedTextRegionSize"].val)
          /\ SameNumber(first["getSharedTextRegionSize"].val,
                        SHARED_TEXT_REGION_SIZE)
    /\ Known({"getSharedDataRegionSize"}) =>
          /\ ~IsZero(first["getSharedDataRegionSize"].val)
          /\ SameNumber(first["getSharedDataRegionSize"].val,
                        SHARED_DATA_REGION_SIZE)

C8_Witness == Known({"getSharedTextRegionSize", "getSharedDataRegionSize"})

\* C9: the size of mach_task_basic_info is at least the sum of the sizes of
\* its virtual_size and resident_size fields, and at least 16 when both
\* fields are at least 8 bytes.
C9_StructHoldsBothFields ==
    LET s == "getSizeofMachTaskBasicInfo"
        vz == "getSizeofMachTaskBasicInfo_virtual_size"
        rz == "getSizeofMachTaskBasicInfo_resident_size"
    IN  Known({s, vz, rz}) =>
            /\ Small({s, vz, rz})
            /\ V(s) >= V(vz) + V(rz)
            /\ (V(vz) >= 8 /\ V(rz) >= 8) => V(s) >= 16

C9_Witness ==
    /\ Known({"getSizeofMachTaskBasicInfo",
              "getSizeofMachTaskBasicInfo_virtual_size",
              "getSizeofMachTaskBasicInfo_resident_size"})
    /\ V("getSizeofMachTaskBasicInfo_virtual_size") >= 8
    /\ V("getSizeofMachTaskBasicInfo_resident_size") >= 8

\* C10: the accessors are stateless and free of side effects: no static
\* object is ever assigned, and the value of a field-size accessor does not
\* depend on the contents of its uninitialised automatic struct.
C10_NoSideEffects ==
    /\ staticStore = {}
    /\ (last.fn \in DeclaresLocal /\ first[last.fn].local # last.local) =>
          last.val = first[last.fn].val

\* a field-size accessor has returned twice with different struct contents
C10_Witness ==
    /\ last.fn \in DeclaresLocal
    /\ first[last.fn].local # last.local

====
